---- MODULE Spec2Model ----
(***************************************************************************)
(* The inventory quantity ledger of the stock manager server: the request  *)
(* handlers of routes/inventory.js and routes/transactions.js running      *)
(* concurrently against the Inventory and Transaction collections.         *)
(* Every `await` on the store is a step of its own; what a handler does    *)
(* between two awaits is one atomic step.                                  *)
(***************************************************************************)
EXTENDS Integers, Sequences, FiniteSets, TLC

\* ------------------------------------------------------------------ bounds
MaxQty == 12       \* largest quantity a request may compute
MaxClock == 2      \* seconds the clock may advance

\* ------------------------------------------------------------- universes
Reqs == {"r1", "r2", "r3"}        \* requests (concurrent handlers)
Clients == {"r1", "r2"}           \* the requests of the general specification
Items == {"i1", "i2", "i3"}           \* inventory _id values
Schools == {"s1", "s2"}           \* tenants
TxnTypes == {"check-in", "check-out", "adjustment", "transfer"}
BodyTypes == TxnTypes \cup {"bogus"}   \* req.body.type: any string
NoVal == -1                       \* "undefined" in a number slot
Categories == {"c1", "c2"}        \* Category _id values

\* Defaults of the Inventory schema.
DefaultMinThreshold == 5
DefaultMaxThreshold == 100
DefaultCost == 0

\* A quantity as it arrives in req.body: JSON number, or a numeric string
\* (express.urlencoded, or a JSON string); the validators accept both.
BodyNums == {-1, 0, 1, 2}
BodyQty == [n : BodyNums, str : BOOLEAN]
One == [n |-> 1, str |-> FALSE]
Costs == {-1, 0}
InitQtys == {0, 1, 2}              \* quantity of the item present at start

VARIABLES items, log, req, user, now
vars == <<items, log, req, user, now>>

\* ---------------------------------------------------------------- helpers
RECURSIVE Digits(_)
Digits(n) == IF n < 10 THEN 1 ELSE 1 + Digits(n \div 10)

RECURSIVE Pow10(_)
Pow10(k) == IF k = 0 THEN 1 ELSE 10 * Pow10(k - 1)

\* JavaScript `a + b` with a : Number and b the body value: numeric addition
\* for a Number, string concatenation for a String; the result is cast back
\* to Number by the schema (Number("15") = 15).
JsAdd(a, b) == IF b.str THEN a * Pow10(Digits(b.n)) + b.n ELSE a + b.n

\* express-validator isInt({min: m}) on the stringified body value
IsInt(b, m) == b.n >= m

\* Faulty variant: the quantity of a transaction may be 0.
ValidateTransactionNonNegative(type, qty) == type \in TxnTypes /\ IsInt(qty, 0)

ValidateTransaction(type, qty) == type \in TxnTypes /\ IsInt(qty, 1)

\* The messages of the errors array of the 400 "Validation failed" response.
TransactionErrors(type, qty) ==
    (IF type \in TxnTypes THEN {} ELSE {"Invalid transaction type"})
    \cup (IF IsInt(qty, 1) THEN {} ELSE {"Quantity must be a positive integer"})

ValidateInventory(qty) == IsInt(qty, 0)

\* new Inventory({...req.body, school}) for a body that names category "c1"
\* and a quantity, and leaves the thresholds and the cost to their defaults.
NewItem(school, q) ==
    [exists |-> TRUE, school |-> school, quantity |-> q, isActive |-> TRUE,
     category |-> "c1", minThreshold |-> DefaultMinThreshold,
     maxThreshold |-> DefaultMaxThreshold, cost |-> DefaultCost]

\* An _id no document has.
NoItem == [NewItem("s1", 0) EXCEPT !.exists = FALSE, !.isActive = FALSE]

NoSummary == [totalItems |-> NoVal, totalValue |-> NoVal,
              lowStockCount |-> NoVal, outOfStockCount |-> NoVal]

\* A refresh token: jwt.sign of {userId} and the second it is signed in
\* (iat; exp = iat + 7d), with a fixed secret: two tokens signed for one user
\* in the same second are the same string.
SignRefresh(userId, second) == [userId |-> userId, iat |-> second]
NoToken == [userId |-> "none", iat |-> NoVal]

\* The user u1 after a login in second 0.
LoggedIn == [refreshToken |-> SignRefresh("u1", 0), isActive |-> TRUE]

NoCounts == [total |-> NoVal, checkIn |-> NoVal, checkOut |-> NoVal,
             adjustment |-> NoVal, transfer |-> NoVal]

IdleReq == [op |-> "none", pc |-> "idle", school |-> "s1", inv |-> "i1",
            type |-> "none", qty |-> [n |-> 0, str |-> FALSE], cost |-> 0,
            prev |-> NoVal, new |-> NoVal, delta |-> NoVal,
            itemW |-> "none", txnW |-> "none", setActive |-> "keep",
            setSchool |-> "keep", readActive |-> "none",
            status |-> "none", errors |-> {}, available |-> NoVal,
            requested |-> NoVal, category |-> "none", filter |-> "none",
            stockStatus |-> "none", found |-> {}, summary |-> NoSummary,
            variant |-> "none", rows |-> {}, todo |-> {}, counts |-> NoCounts,
            token |-> NoToken, newToken |-> NoToken]

Txn(by, type, inv, school, delta, prev, new, reason) ==
    [by |-> by, type |-> type, inventory |-> inv, school |-> school,
     quantity |-> delta, previousQuantity |-> prev, newQuantity |-> new,
     reason |-> reason]

\* ------------------------------------------------------------------- Init
\* One item of school s1 is present, created by create-item with a quantity
\* in InitQtys (so its "Initial stock" check-in is in the log when > 0).
Init ==
    \E q \in InitQtys :
        /\ items = [i \in Items |->
                      IF i = "i1"
                      THEN NewItem("s1", q)
                      ELSE NoItem]
        /\ log = IF q > 0
                 THEN <<Txn("seed", "check-in", "i1", "s1", q, 0, q, "Initial stock")>>
                 ELSE <<>>
        /\ req = [r \in Reqs |-> IdleReq]
        /\ user = LoggedIn /\ now = 0

\* Each request is handled once; requests arrive in the order r1, r2, r3
\* (the names carry no meaning, so this loses no behaviour).
Earlier(r) == CASE r = "r1" -> {} [] r = "r2" -> {"r1"} [] OTHER -> {"r1", "r2"}
Free(r) == req[r].pc = "idle" /\ \A g \in Earlier(r) : req[g].pc # "idle"

\* Faulty variant: the query does not filter on isActive.
FindActiveAnyState(inv, school) == items[inv].exists /\ items[inv].school = school

\* Inventory.findOne({_id, school, isActive: true})
FindActive(inv, school) ==
    items[inv].exists /\ items[inv].school = school /\ items[inv].isActive

\* Inventory.findOne({_id, school})
FindAny(inv, school) == items[inv].exists /\ items[inv].school = school

\* ------------------------------------------------ create-transaction
\* The switch of POST /transactions: the quantity the item gets.
NewQuantity(type, prev, qty) ==
    CASE type = "check-in" -> JsAdd(prev, qty)
      [] type = "check-out" -> prev - qty.n
      [] type = "adjustment" -> qty.n
      [] OTHER -> NoVal

\* Faulty variant: an adjustment records the target quantity instead of the delta.
TransactionQuantityAbsolute(type, prev, qty) ==
    CASE type = "check-in" -> qty.n
      [] type = "check-out" -> 0 - qty.n
      [] type = "adjustment" -> qty.n
      [] OTHER -> NoVal

\* The switch of POST /transactions: the signed quantity the record gets.
TransactionQuantity(type, prev, qty) ==
    CASE type = "check-in" -> qty.n
      [] type = "check-out" -> 0 - qty.n
      [] type = "adjustment" -> qty.n - prev
      [] OTHER -> NoVal

\* Faulty variant: the sufficiency check off by one.
InsufficientStockOffByOne(type, prev, qty) == type = "check-out" /\ prev + 1 < qty.n

InsufficientStock(type, prev, qty) == type = "check-out" /\ prev < qty.n

\* Faulty variant: the switch has no default case.
InvalidTypeNever(type) == FALSE

\* The default case of the switch.
InvalidType(type) == type \notin {"check-in", "check-out", "adjustment"}

\* A handler that returned without starting a write: the request it served
\* (of the quantity, the number it denotes) and its response.
Done(op, status, school, inv, type, qty, prev) ==
    [IdleReq EXCEPT !.op = op, !.pc = "done", !.status = status, !.school = school,
                    !.inv = inv, !.type = type, !.prev = prev,
                    !.qty = [n |-> qty.n, str |-> FALSE]]

\* validateTransaction, findOne, the switch, and the start of both saves.
CreateTransaction(r, school, type, inv, qty, cost) ==
    /\ Free(r)
    /\ UNCHANGED <<items, log>>
    /\ LET prev == items[inv].quantity
       IN  IF ~ValidateTransaction(type, qty)
           THEN req' = [req EXCEPT ![r] =
                          [Done("txn", "400 Validation failed", school, inv, type, qty, NoVal)
                              EXCEPT !.errors = TransactionErrors(type, qty)]]
           ELSE IF ~FindActive(inv, school)
           THEN req' = [req EXCEPT ![r] =
                          Done("txn", "404 Not found", school, inv, type, qty, NoVal)]
           ELSE IF InsufficientStock(type, prev, qty)
           THEN req' = [req EXCEPT ![r] =
                          [Done("txn", "400 Insufficient stock", school, inv, type, qty, prev)
                              EXCEPT !.available = prev, !.requested = qty.n]]
           ELSE IF InvalidType(type)
           THEN req' = [req EXCEPT ![r] =
                          Done("txn", "400 Invalid transaction type", school, inv, type, qty, prev)]
           ELSE /\ NewQuantity(type, prev, qty) <= MaxQty
                /\ req' = [req EXCEPT ![r] =
                          [IdleReq EXCEPT !.op = "txn", !.pc = "saving",
                              !.school = school, !.type = type, !.inv = inv,
                              !.qty = qty, !.cost = cost, !.prev = prev,
                              !.new = NewQuantity(type, prev, qty),
                              !.delta = TransactionQuantity(type, prev, qty),
                              !.itemW = "pending", !.txnW = "pending",
                              !.status = "pending"]]
    /\ UNCHANGED <<user, now>>

\* Promise.all settles: 500 at the first rejection, 201 when both resolved.
Settle(rec) ==
    LET failed == rec.itemW = "failed" \/ rec.txnW = "failed"
        open == rec.itemW = "pending" \/ rec.txnW = "pending"
    IN  [rec EXCEPT !.status = IF failed THEN "500" ELSE IF open THEN "pending" ELSE "201",
                    !.pc = IF open THEN "saving" ELSE "done",
                    !.cost = IF rec.txnW = "pending" THEN rec.cost ELSE IdleReq.cost]

\* The Transaction schema: cost has min 0 (the route does not validate cost).
TransactionValid(rec) == rec.cost >= 0

\* Faulty variant: the record is written over the latest record of the log.
SaveTransactionOverwrite(r, ok) ==
    /\ req[r].op = "txn" /\ req[r].pc = "saving" /\ req[r].txnW = "pending"
    /\ LET rec == req[r]
           done == ok /\ TransactionValid(rec)
           txn == Txn(r, rec.type, rec.inv, rec.school,
                      rec.delta, rec.prev, rec.new, "body.reason")
       IN  /\ log' = IF ~done THEN log
                     ELSE IF log = <<>> THEN <<txn>>
                     ELSE [log EXCEPT ![Len(log)] = txn]
           /\ req' = [req EXCEPT ![r] =
                        Settle([rec EXCEPT !.txnW = IF done THEN "ok" ELSE "failed"])]
    /\ UNCHANGED items
    /\ UNCHANGED <<user, now>>

\* transaction.save() of Promise.all; ok = FALSE is a failed store write.
SaveTransaction(r, ok) ==
    /\ req[r].op = "txn" /\ req[r].pc = "saving" /\ req[r].txnW = "pending"
    /\ LET rec == req[r]
           done == ok /\ TransactionValid(rec)
       IN  /\ log' = IF done
                     THEN Append(log, Txn(r, rec.type, rec.inv, rec.school,
                                          rec.delta, rec.prev, rec.new, "body.reason"))
                     ELSE log
           /\ req' = [req EXCEPT ![r] =
                        Settle([rec EXCEPT !.txnW = IF done THEN "ok" ELSE "failed"])]
    /\ UNCHANGED items
    /\ UNCHANGED <<user, now>>

\* The Inventory schema: quantity has min 0.
InventoryValid(rec) == rec.new >= 0

\* Faulty variant: the item is written with an unvalidated $inc of the delta.
SaveInventoryInc(r, ok) ==
    /\ req[r].op = "txn" /\ req[r].pc = "saving" /\ req[r].itemW = "pending"
    /\ LET rec == req[r]
       IN  /\ items' = IF ok
                       THEN [items EXCEPT ![rec.inv].quantity = @ + rec.delta]
                       ELSE items
           /\ req' = [req EXCEPT ![r] =
                        Settle([rec EXCEPT !.itemW = IF ok THEN "ok" ELSE "failed"])]
    /\ UNCHANGED log
    /\ UNCHANGED <<user, now>>

\* inventory.save() of Promise.all: $set of the modified paths, by _id.
\* Mongoose marks quantity modified only when the assigned value differs.
SaveInventory(r, ok) ==
    /\ req[r].op = "txn" /\ req[r].pc = "saving" /\ req[r].itemW = "pending"
    /\ LET rec == req[r]
           done == ok /\ InventoryValid(rec)
       IN  /\ items' = IF done /\ rec.new # rec.prev
                       THEN [items EXCEPT ![rec.inv].quantity = rec.new]
                       ELSE items
           /\ req' = [req EXCEPT ![r] =
                        Settle([rec EXCEPT !.itemW = IF done THEN "ok" ELSE "failed"])]
    /\ UNCHANGED log
    /\ UNCHANGED <<user, now>>

\* ------------------------------------------------------- create-item
\* The _id the store gives a new document: one no document has.
NewId == CHOOSE i \in Items : ~items[i].exists

\* Faulty variant: the initial transaction is recorded for quantity 0 too.
HasInitialStockOrNone(q) == q >= 0

\* `if (item.quantity > 0)` of POST /inventory.
HasInitialStock(q) == q > 0

\* POST /inventory: validateInventory, new Inventory({...body, school}),
\* item.save().  body.quantity is cast to Number by the schema.
CreateItem(r, school, body, ok) ==
    /\ Free(r)
    /\ \E i \in Items : ~items[i].exists
    /\ UNCHANGED log
    /\ IF ~ValidateInventory(body.quantity)
       THEN /\ req' = [req EXCEPT ![r] =
                         [Done("create", "400 Validation failed", school, IdleReq.inv,
                               "none", body.quantity, NoVal)
                             EXCEPT !.errors = {"Quantity must be a non-negative integer"}]]
            /\ UNCHANGED items
       ELSE IF ~(ok /\ InventoryValid([new |-> body.quantity.n]))
       THEN /\ req' = [req EXCEPT ![r] =
                         [Done("create", "500", school, IdleReq.inv, "none", body.quantity, NoVal)
                             EXCEPT !.itemW = "failed"]]
            /\ UNCHANGED items
       ELSE /\ items' = [items EXCEPT ![NewId] = NewItem(school, body.quantity.n)]
            /\ req' = [req EXCEPT ![r] =
                         [IdleReq EXCEPT !.op = "create", !.inv = NewId,
                             !.school = school, !.qty = body.quantity,
                             !.prev = 0, !.new = body.quantity.n,
                             !.delta = body.quantity.n, !.itemW = "ok",
                             !.type = IF HasInitialStock(body.quantity.n) THEN "check-in" ELSE "none",
                             !.txnW = IF HasInitialStock(body.quantity.n) THEN "pending" ELSE "none",
                             !.pc = IF HasInitialStock(body.quantity.n) THEN "saveTxn" ELSE "done",
                             !.status = IF HasInitialStock(body.quantity.n) THEN "pending" ELSE "201"]]
    /\ UNCHANGED <<user, now>>

\* The "Initial stock" transaction.save() of POST /inventory.
CreateSaveTransaction(r, ok) ==
    /\ req[r].op = "create" /\ req[r].pc = "saveTxn"
    /\ LET rec == req[r]
       IN  /\ log' = IF ok
                     THEN Append(log, Txn(r, "check-in", rec.inv, rec.school,
                                          rec.delta, 0, rec.new, "Initial stock"))
                     ELSE log
           /\ req' = [req EXCEPT ![r] =
                        [rec EXCEPT !.pc = "done",
                                    !.txnW = IF ok THEN "ok" ELSE "failed",
                                    !.status = IF ok THEN "201" ELSE "500"]]
    /\ UNCHANGED items
    /\ UNCHANGED <<user, now>>

\* ------------------------------------------------------- update-item
\* Object.assign(item, req.body): the value a path of the document is set
\* to, "keep" when the body has no such field or names the value the
\* document already has (the path is then not modified).
Assigned(bodyValue, current) ==
    IF bodyValue \in {"none", current} THEN "keep" ELSE bodyValue

\* isActive of a document as the body would name it.
ActiveName(isActive) == IF isActive THEN "true" ELSE "false"

\* PUT /inventory/:id: validateInventory, findOne({_id, school}) and
\* Object.assign(item, req.body) on the document read.
UpdateItem(r, school, inv, body) ==
    /\ Free(r)
    /\ UNCHANGED <<items, log>>
    /\ IF ~ValidateInventory(body.quantity)
       THEN req' = [req EXCEPT ![r] =
                      [Done("update", "400 Validation failed", school, inv, "none",
                            body.quantity, NoVal)
                          EXCEPT !.errors = {"Quantity must be a non-negative integer"}]]
       ELSE IF ~FindAny(inv, school)
       THEN req' = [req EXCEPT ![r] =
                      Done("update", "404 Not found", school, inv, "none", body.quantity, NoVal)]
       ELSE req' = [req EXCEPT ![r] =
                      [IdleReq EXCEPT !.op = "update", !.pc = "saveItem",
                          !.school = school, !.inv = inv, !.qty = body.quantity,
                          !.type = "adjustment",
                          !.prev = items[inv].quantity, !.new = body.quantity.n,
                          !.delta = body.quantity.n - items[inv].quantity,
                          !.readActive = ActiveName(items[inv].isActive),
                          !.setSchool = Assigned(body.school, items[inv].school),
                          !.setActive = Assigned(body.isActive,
                                                 ActiveName(items[inv].isActive)),
                          !.itemW = "pending", !.status = "pending"]]
    /\ UNCHANGED <<user, now>>

\* item.save() of PUT /inventory/:id: $set of the modified paths.
UpdateSaveItem(r, ok) ==
    /\ req[r].op = "update" /\ req[r].pc = "saveItem"
    /\ LET rec == req[r]
           changed == rec.prev # rec.new
           done == ok /\ InventoryValid(rec)
       IN  /\ items' = IF done
                       THEN [items EXCEPT
                               ![rec.inv].quantity =
                                   IF changed THEN rec.new ELSE @,
                               ![rec.inv].school =
                                   IF rec.setSchool = "keep" THEN @ ELSE rec.setSchool,
                               ![rec.inv].isActive =
                                   IF rec.setActive = "keep" THEN @
                                   ELSE rec.setActive = "true"]
                       ELSE items
           /\ req' = [req EXCEPT ![r] =
                        [rec EXCEPT
                           !.itemW = IF done THEN "ok" ELSE "failed",
                           !.txnW = IF done /\ changed THEN "pending" ELSE "none",
                           !.pc = IF done /\ changed THEN "saveTxn" ELSE "done",
                           !.status = IF ~done THEN "500"
                                      ELSE IF changed THEN "pending" ELSE "200"]]
    /\ UNCHANGED log
    /\ UNCHANGED <<user, now>>

\* The "Manual adjustment" transaction.save() of PUT /inventory/:id.
UpdateSaveTransaction(r, ok) ==
    /\ req[r].op = "update" /\ req[r].pc = "saveTxn"
    /\ LET rec == req[r]
       IN  /\ log' = IF ok
                     THEN Append(log, Txn(r, "adjustment", rec.inv, rec.school,
                                          rec.delta, rec.prev, rec.new,
                                          "Manual adjustment"))
                     ELSE log
           /\ req' = [req EXCEPT ![r] =
                        [rec EXCEPT !.pc = "done",
                                    !.txnW = IF ok THEN "ok" ELSE "failed",
                                    !.status = IF ok THEN "200" ELSE "500"]]
    /\ UNCHANGED items
    /\ UNCHANGED <<user, now>>

\* ------------------------------------------------------- delete-item
\* DELETE /inventory/:id: findOne({_id, school}); item.isActive = false.
DeleteItem(r, school, inv) ==
    /\ Free(r)
    /\ UNCHANGED <<items, log>>
    /\ IF ~FindAny(inv, school)
       THEN req' = [req EXCEPT ![r] =
                      Done("delete", "404 Not found", school, inv, "none", IdleReq.qty, NoVal)]
       ELSE req' = [req EXCEPT ![r] =
                      [IdleReq EXCEPT !.op = "delete", !.pc = "saveItem", !.inv = inv,
                          !.school = school,
                          !.setActive = IF items[inv].isActive THEN "false" ELSE "keep",
                          !.itemW = "pending", !.status = "pending"]]
    /\ UNCHANGED <<user, now>>

\* Faulty variant: the document is removed from the collection.
DeleteSaveItemRemove(r, ok) ==
    /\ req[r].op = "delete" /\ req[r].pc = "saveItem"
    /\ LET rec == req[r]
       IN  /\ items' = IF ok THEN [items EXCEPT ![rec.inv] = NoItem] ELSE items
           /\ req' = [req EXCEPT ![r] =
                        [rec EXCEPT !.pc = "done",
                                    !.itemW = IF ok THEN "ok" ELSE "failed",
                                    !.status = IF ok THEN "200" ELSE "500"]]
    /\ UNCHANGED log
    /\ UNCHANGED <<user, now>>

\* item.save() of DELETE /inventory/:id.
DeleteSaveItem(r, ok) ==
    /\ req[r].op = "delete" /\ req[r].pc = "saveItem"
    /\ LET rec == req[r]
       IN  /\ items' = IF ok /\ rec.setActive = "false"
                       THEN [items EXCEPT ![rec.inv].isActive = FALSE]
                       ELSE items
           /\ req' = [req EXCEPT ![r] =
                        [rec EXCEPT !.pc = "done",
                                    !.itemW = IF ok THEN "ok" ELSE "failed",
                                    !.status = IF ok THEN "200" ELSE "500"]]
    /\ UNCHANGED log
    /\ UNCHANGED <<user, now>>

\* ---------------------------------------------------------- behaviours
\* The body of POST /inventory (its school is overwritten by the caller's)
\* and the body of PUT /inventory/:id, which may name any path of the
\* document: here school and isActive ("none": the field is absent).
Bodies == [quantity : BodyQty]
UpdateBodies == [quantity : BodyQty, school : Schools \cup {"none"},
                 isActive : {"none", "true", "false"}]

\* A request arrives (guarded by Free, so that inputs are drawn only for a
\* request that can start) or a handler in flight takes its next step.
Next ==
    \/ \E r \in Clients :
          /\ Free(r)
          /\ \E school \in Schools, type \in BodyTypes, inv \in Items,
                qty \in BodyQty, cost \in Costs :
                  CreateTransaction(r, school, type, inv, qty, cost)
    \/ \E r \in Clients, ok \in BOOLEAN : SaveTransaction(r, ok)
    \/ \E r \in Clients, ok \in BOOLEAN : SaveInventory(r, ok)
    \/ \E r \in Clients :
          /\ Free(r)
          /\ \E school \in Schools, body \in Bodies, ok \in BOOLEAN :
                  CreateItem(r, school, body, ok)
    \/ \E r \in Clients, ok \in BOOLEAN : CreateSaveTransaction(r, ok)
    \/ \E r \in Clients :
          /\ Free(r)
          /\ \E school \in Schools, inv \in Items, body \in UpdateBodies :
                  UpdateItem(r, school, inv, body)
    \/ \E r \in Clients, ok \in BOOLEAN : UpdateSaveItem(r, ok)
    \/ \E r \in Clients, ok \in BOOLEAN : UpdateSaveTransaction(r, ok)
    \/ \E r \in Clients :
          /\ Free(r)
          /\ \E school \in Schools, inv \in Items : DeleteItem(r, school, inv)
    \/ \E r \in Clients, ok \in BOOLEAN : DeleteSaveItem(r, ok)

Spec == Init /\ [][Next]_vars

TypeOK ==
    /\ \A i \in Items : items[i].quantity \in 0..MaxQty
    /\ Len(log) <= Cardinality(Reqs) + 1

\* ------------------------------------------- the check-out scenario
\* N concurrent check-out(1) requests against one active item of quantity N,
\* with a store that accepts every write: N is the number of requests.
\* (One is the body quantity 1.)
InitCheckout ==
    LET n == Cardinality(Reqs)
    IN  /\ items = [i \in Items |->
                      IF i = "i1"
                      THEN NewItem("s1", n)
                      ELSE NoItem]
        /\ log = <<Txn("seed", "check-in", "i1", "s1", n, 0, n, "Initial stock")>>
        /\ req = [r \in Reqs |-> IdleReq]
        /\ user = LoggedIn /\ now = 0

NextCheckout ==
    \/ \E r \in Reqs : CreateTransaction(r, "s1", "check-out", "i1", One, 0)
    \/ \E r \in Reqs : SaveTransaction(r, TRUE)
    \/ \E r \in Reqs : SaveInventory(r, TRUE)

SpecCheckout == InitCheckout /\ [][NextCheckout]_vars

\* ------------------------------------------------------------ reports
\* Faulty variant: the overstock rule is applied before the low-stock rule.
StockStatusOverstockFirst(quantity, minThreshold, maxThreshold) ==
    IF quantity <= 0 THEN "out-of-stock"
    ELSE IF quantity >= maxThreshold THEN "overstock"
    ELSE IF quantity <= minThreshold THEN "low-stock"
    ELSE "in-stock"

\* The stockStatus virtual of the Inventory schema.
StockStatus(quantity, minThreshold, maxThreshold) ==
    IF quantity <= 0 THEN "out-of-stock"
    ELSE IF quantity <= minThreshold THEN "low-stock"
    ELSE IF quantity >= maxThreshold THEN "overstock"
    ELSE "in-stock"

\* item.stockStatus read on a stored document.
ReadStockStatus(r, inv) ==
    /\ Free(r)
    /\ items[inv].exists
    /\ UNCHANGED <<items, log>>
    /\ req' = [req EXCEPT ![r] =
                 [IdleReq EXCEPT !.op = "stockStatus", !.pc = "done", !.inv = inv,
                     !.status = "200",
                     !.stockStatus = StockStatus(items[inv].quantity,
                                                 items[inv].minThreshold,
                                                 items[inv].maxThreshold)]]
    /\ UNCHANGED <<user, now>>

\* The status values GET /reports/inventory may be asked for ("none": no
\* status parameter), and the category parameter likewise.
StatusFilters == {"none", "low-stock", "out-of-stock", "overstock", "in-stock"}
CategoryFilters == Categories \cup {"none"}

\* Inventory.find(query) of GET /reports/inventory: the _ids it returns.
ReportQuery(school, category, status) ==
    {i \in Items :
        /\ items[i].exists /\ items[i].school = school /\ items[i].isActive
        /\ category # "none" => items[i].category = category
        /\ CASE status = "low-stock" -> items[i].quantity <= items[i].minThreshold
             [] status = "out-of-stock" -> items[i].quantity = 0
             [] status = "overstock" -> items[i].quantity >= items[i].maxThreshold
             [] OTHER -> TRUE}

\* items.reduce((sum, item) => sum + item.quantity * item.cost, 0)
RECURSIVE TotalValue(_)
TotalValue(found) ==
    IF found = {} THEN 0
    ELSE LET i == CHOOSE x \in found : TRUE
         IN  items[i].quantity * items[i].cost + TotalValue(found \ {i})

\* Faulty variant: an item at its minimum threshold is not counted low.
InventorySummaryStrict(found) ==
    [totalItems |-> Cardinality(found),
     totalValue |-> TotalValue(found),
     lowStockCount |->
         Cardinality({i \in found : items[i].quantity < items[i].minThreshold}),
     outOfStockCount |-> Cardinality({i \in found : items[i].quantity = 0})]

\* The summary object of GET /reports/inventory.
InventorySummary(found) ==
    [totalItems |-> Cardinality(found),
     totalValue |-> TotalValue(found),
     lowStockCount |->
         Cardinality({i \in found : items[i].quantity <= items[i].minThreshold}),
     outOfStockCount |-> Cardinality({i \in found : items[i].quantity = 0})]

\* GET /reports/inventory; ok = FALSE is a failed find.
InventoryReport(r, school, category, status, ok) ==
    /\ Free(r)
    /\ UNCHANGED <<items, log>>
    /\ LET found == ReportQuery(school, category, status)
           asked == [IdleReq EXCEPT !.op = "report", !.pc = "done",
                        !.school = school, !.category = category,
                        !.filter = status]
       IN  req' = [req EXCEPT ![r] =
                     IF ok
                     THEN [asked EXCEPT !.status = "200", !.found = found,
                                        !.summary = InventorySummary(found)]
                     ELSE [asked EXCEPT !.status = "500"]]
    /\ UNCHANGED <<user, now>>

\* ---------------------------------------------------- low-stock report
\* Faulty variant: every active item of the school is listed.
LowStockQueryAll(school) ==
    {i \in Items : items[i].exists /\ items[i].school = school /\ items[i].isActive}

\* Inventory.find({school, isActive: true, $expr: {$lte: [quantity, minThreshold]}})
LowStockQuery(school) ==
    {i \in Items :
        /\ items[i].exists /\ items[i].school = school /\ items[i].isActive
        /\ items[i].quantity <= items[i].minThreshold}

\* Math.max(a, b)
Max(a, b) == IF a >= b THEN a ELSE b

\* Faulty variant: the spreadsheet orders up to the maximum threshold only.
RecommendedOrderExcelToMax(variant, item) ==
    IF variant = "excel" THEN item.maxThreshold - item.quantity
    ELSE Max(item.maxThreshold - item.quantity, item.minThreshold * 2)

\* recommendedOrder as each of the three handlers computes it.
RecommendedOrder(variant, item) ==
    CASE variant = "json" -> Max(item.maxThreshold - item.quantity, item.minThreshold * 2)
      [] variant = "excel" -> Max(item.maxThreshold - item.quantity, item.minThreshold * 2)
      [] OTHER -> Max(item.maxThreshold - item.quantity, item.minThreshold * 2)

Infinity == -2       \* the double a division by 0 gives, in a number slot

\* The divisor minThreshold * 0.1 of daysUntilEmpty, in tenths; NoVal when
\* the conditional takes the branch without a division.
Divisor10(item) == IF item.quantity > 0 THEN item.minThreshold ELSE NoVal

\* item.quantity > 0 ? Math.floor(item.quantity / (item.minThreshold * 0.1)) : 0
\* A division by 0 gives Infinity; the quotients of the quantities and
\* thresholds drawn below are exact in double arithmetic.
DaysUntilEmpty(item) ==
    IF item.quantity > 0
    THEN IF item.minThreshold = 0 THEN Infinity
         ELSE (item.quantity * 10) \div item.minThreshold
    ELSE 0

\* One element of the report: recommendations (JSON), data (spreadsheet) or
\* rows (PDF).  The JSON element has no estimatedCost, the others have no
\* daysUntilEmpty.
LowStockRow(variant, i) ==
    [id |-> i,
     recommendedOrder |-> RecommendedOrder(variant, items[i]),
     estimatedCost |-> IF variant = "json" THEN NoVal
                       ELSE RecommendedOrder(variant, items[i]) * items[i].cost,
     divisor10 |-> IF variant = "json" THEN Divisor10(items[i]) ELSE NoVal,
     daysUntilEmpty |-> IF variant = "json" THEN DaysUntilEmpty(items[i]) ELSE NoVal]

\* recommendations.reduce((sum, item) => sum + item.recommendedOrder * item.cost, 0)
RECURSIVE RestockValue(_)
RestockValue(found) ==
    IF found = {} THEN 0
    ELSE LET i == CHOOSE x \in found : TRUE
         IN  RecommendedOrder("json", items[i]) * items[i].cost
               + RestockValue(found \ {i})

LowStockVariants == {"json", "excel", "pdf"}

\* GET /reports/low-stock, /low-stock/excel and /low-stock/pdf; ok = FALSE
\* is a failed find.  The summary is part of the JSON response only.
LowStockReport(r, school, variant, ok) ==
    /\ Free(r)
    /\ UNCHANGED <<items, log>>
    /\ LET found == LowStockQuery(school)
           asked == [IdleReq EXCEPT !.op = "lowStock", !.pc = "done",
                        !.school = school, !.variant = variant]
       IN  req' = [req EXCEPT ![r] =
                     IF ok
                     THEN [asked EXCEPT
                             !.status = "200", !.found = found,
                             !.rows = {LowStockRow(variant, i) : i \in found},
                             !.summary =
                                IF variant = "json"
                                THEN [NoSummary EXCEPT
                                        !.totalItems = Cardinality(found),
                                        !.outOfStockCount = Cardinality(
                                            {i \in found : items[i].quantity = 0}),
                                        !.totalValue = RestockValue(found)]
                                ELSE NoSummary]
                     ELSE [asked EXCEPT !.status = "500"]]
    /\ UNCHANGED <<user, now>>

\* ------------------------------------------------------ category report
\* {$sum: '$quantity'} over the documents of one group.
RECURSIVE TotalQuantity(_)
TotalQuantity(found) ==
    IF found = {} THEN 0
    ELSE LET i == CHOOSE x \in found : TRUE
         IN  items[i].quantity + TotalQuantity(found \ {i})

\* $match {school, isActive: true} and $group by category: the groups.
CategoryGroups(school) ==
    {items[i].category :
        i \in {j \in Items : /\ items[j].exists /\ items[j].school = school
                             /\ items[j].isActive}}

\* One element of categoryStats.  averageValue is the quotient $divide gives,
\* kept as numerator and denominator.
CategoryRow(school, c) ==
    LET group == {i \in Items : /\ items[i].exists /\ items[i].school = school
                                /\ items[i].isActive /\ items[i].category = c}
        value == TotalValue(group)
    IN  [id |-> c,
         itemCount |-> Cardinality(group),
         totalQuantity |-> TotalQuantity(group),
         totalValue |-> value,
         lowStockItems |->
             Cardinality({i \in group : items[i].quantity <= items[i].minThreshold}),
         averageValue |-> [num |-> value, den |-> Cardinality(group)]]

\* GET /reports/categories; the aggregate fails when the store does
\* (ok = FALSE) or when $divide meets a zero itemCount.
CategoryReport(r, school, ok) ==
    /\ Free(r)
    /\ UNCHANGED <<items, log>>
    /\ LET stats == {CategoryRow(school, c) : c \in CategoryGroups(school)}
           asked == [IdleReq EXCEPT !.op = "categories", !.pc = "done",
                        !.school = school]
       IN  req' = [req EXCEPT ![r] =
                     IF ok /\ \A row \in stats : row.itemCount # 0
                     THEN [asked EXCEPT !.status = "200", !.rows = stats]
                     ELSE [asked EXCEPT !.status = "500"]]
    /\ UNCHANGED <<user, now>>

\* --------------------------------------------------------- item listing
ListFilters == {"none", "low-stock", "out-of-stock", "overstock", "in-stock"}

\* The query of GET /inventory (no search text, first page holding all).
ListQuery(school, category, status) ==
    {i \in Items :
        /\ items[i].exists /\ items[i].school = school /\ items[i].isActive
        /\ category # "none" => items[i].category = category
        /\ CASE status = "low-stock" -> items[i].quantity <= items[i].minThreshold
             [] status = "out-of-stock" -> items[i].quantity = 0
             [] status = "overstock" -> items[i].quantity >= items[i].maxThreshold
             [] status = "in-stock" -> /\ items[i].quantity > items[i].minThreshold
                                       /\ items[i].quantity < items[i].maxThreshold
             [] OTHER -> TRUE}

\* GET /inventory: find and countDocuments of the same query; ok = FALSE is
\* a failed query.
ListItems(r, school, category, status, ok) ==
    /\ Free(r)
    /\ UNCHANGED <<items, log>>
    /\ LET found == ListQuery(school, category, status)
           asked == [IdleReq EXCEPT !.op = "list", !.pc = "done",
                        !.school = school, !.category = category,
                        !.filter = status]
       IN  req' = [req EXCEPT ![r] =
                     IF ok
                     THEN [asked EXCEPT !.status = "200", !.found = found,
                              !.summary = [NoSummary EXCEPT
                                             !.totalItems = Cardinality(found)]]
                     ELSE [asked EXCEPT !.status = "500"]]
    /\ UNCHANGED <<user, now>>

\* ------------------------------------------- transaction summaries
\* Transaction.countDocuments({school, type})
CountType(school, type) ==
    Cardinality({k \in 1..Len(log) : log[k].school = school /\ log[k].type = type})

\* Transaction.countDocuments({school}), and the length of Transaction.find.
CountAll(school) ==
    Cardinality({k \in 1..Len(log) : log[k].school = school})

\* The queries GET /transactions/summary/stats hands to Promise.all (the
\* find of the five most recent records gives no figure of the summary).
StatsQueries == {"total", "check-in", "check-out", "adjustment"}

\* GET /transactions/summary/stats up to Promise.all (no date range).
SummaryStats(r, school) ==
    /\ Free(r)
    /\ UNCHANGED <<items, log>>
    /\ req' = [req EXCEPT ![r] =
                 [IdleReq EXCEPT !.op = "stats", !.pc = "querying",
                     !.school = school, !.todo = StatsQueries,
                     !.status = "pending"]]
    /\ UNCHANGED <<user, now>>

\* Faulty variant: a count also removes what it counted from the log.
SummaryStatsCountPurge(r, which, ok) ==
    /\ req[r].op = "stats" /\ req[r].pc = "querying" /\ which \in req[r].todo
    /\ log' = SelectSeq(log, LAMBDA t : t.school # req[r].school)
    /\ req' = [req EXCEPT ![r] = [@ EXCEPT !.pc = "done", !.status = "200",
                                           !.todo = {}]]
    /\ UNCHANGED items
    /\ UNCHANGED <<user, now>>

\* One countDocuments of Promise.all answers; ok = FALSE is a failed query.
SummaryStatsCount(r, which, ok) ==
    /\ req[r].op = "stats" /\ req[r].pc = "querying" /\ which \in req[r].todo
    /\ UNCHANGED <<items, log>>
    /\ LET rec == req[r]
           left == rec.todo \ {which}
           got == CASE which = "total" ->
                         [rec.counts EXCEPT !.total = CountAll(rec.school)]
                    [] which = "check-in" ->
                         [rec.counts EXCEPT !.checkIn = CountType(rec.school, "check-in")]
                    [] which = "check-out" ->
                         [rec.counts EXCEPT !.checkOut = CountType(rec.school, "check-out")]
                    [] OTHER ->
                         [rec.counts EXCEPT !.adjustment = CountType(rec.school, "adjustment")]
       IN  req' = [req EXCEPT ![r] =
                     IF ~ok
                     THEN [rec EXCEPT !.pc = "done", !.status = "500", !.todo = {},
                                      !.counts = NoCounts]
                     ELSE [rec EXCEPT !.counts = got, !.todo = left,
                                      !.pc = IF left = {} THEN "done" ELSE "querying",
                                      !.status = IF left = {} THEN "200" ELSE "pending"]]
    /\ UNCHANGED <<user, now>>

\* GET /reports/transactions up to Promise.all (no date, type or user filter).
TransactionReport(r, school) ==
    /\ Free(r)
    /\ UNCHANGED <<items, log>>
    /\ req' = [req EXCEPT ![r] =
                 [IdleReq EXCEPT !.op = "txnReport", !.pc = "querying",
                     !.school = school, !.todo = {"find", "aggregate"},
                     !.status = "pending"]]
    /\ UNCHANGED <<user, now>>

\* Transaction.find(query) or Transaction.aggregate([$match, $group by type])
\* answers: totalTransactions is the length of the first, byType the counts
\* of the second (a type without records has no group: count 0 here).
TransactionReportQuery(r, which, ok) ==
    /\ req[r].op = "txnReport" /\ req[r].pc = "querying" /\ which \in req[r].todo
    /\ UNCHANGED <<items, log>>
    /\ LET rec == req[r]
           left == rec.todo \ {which}
           got == IF which = "find"
                  THEN [rec.counts EXCEPT !.total = CountAll(rec.school)]
                  ELSE [rec.counts EXCEPT
                          !.checkIn = CountType(rec.school, "check-in"),
                          !.checkOut = CountType(rec.school, "check-out"),
                          !.adjustment = CountType(rec.school, "adjustment"),
                          !.transfer = CountType(rec.school, "transfer")]
       IN  req' = [req EXCEPT ![r] =
                     IF ~ok
                     THEN [rec EXCEPT !.pc = "done", !.status = "500", !.todo = {},
                                      !.counts = NoCounts]
                     ELSE [rec EXCEPT !.counts = got, !.todo = left,
                                      !.pc = IF left = {} THEN "done" ELSE "querying",
                                      !.status = IF left = {} THEN "200" ELSE "pending"]]
    /\ UNCHANGED <<user, now>>

\* The summaries next to create-transaction requests: one item of s1, a
\* store that accepts every write.
NextStats ==
    \/ \E r \in Clients : SummaryStats(r, "s1")
    \/ \E r \in Clients, which \in StatsQueries : SummaryStatsCount(r, which, TRUE)
    \/ \E r \in Clients : TransactionReport(r, "s1")
    \/ \E r \in Clients, which \in {"find", "aggregate"} :
          TransactionReportQuery(r, which, TRUE)
    \/ \E r \in Clients, type \in {"check-in", "check-out", "adjustment"} :
          CreateTransaction(r, "s1", type, "i1", One, 0)
    \/ \E r \in Clients : SaveTransaction(r, TRUE)
    \/ \E r \in Clients : SaveInventory(r, TRUE)

SpecStats == Init /\ [][NextStats]_vars

\* The stores the reports are read from: i1 is an active item of s1 with any
\* of the quantities and thresholds below, i2 is an item of either school,
\* active or soft-deleted, and i3, when present, is an active item of s1 in
\* another category.
\* The "Initial stock" records of the items created with a quantity > 0.
SeedLog(its) ==
    LET T(i) == IF its[i].exists /\ its[i].quantity > 0
                THEN <<Txn("seed", "check-in", i, its[i].school, its[i].quantity,
                           0, its[i].quantity, "Initial stock")>>
                ELSE <<>>
    IN  T("i1") \o T("i2") \o T("i3")

ReportQtys == {0, 5, 50, 100}
ReportThresholds == {0, 5, 100}

InitReports ==
    /\ \E q \in ReportQtys, min \in ReportThresholds, max \in ReportThresholds,
          school \in Schools, active \in BOOLEAN, q2 \in {0, 5}, third \in BOOLEAN :
          items = [i \in Items |->
                     CASE i = "i1" ->
                            [NewItem("s1", q) EXCEPT !.minThreshold = min,
                                                     !.maxThreshold = max,
                                                     !.cost = 2]
                       [] i = "i2" ->
                            [NewItem(school, q2) EXCEPT !.isActive = active,
                                                        !.cost = 3]
                       [] OTHER ->
                            IF third
                            THEN [NewItem("s1", 50) EXCEPT !.category = "c2",
                                                           !.cost = 1]
                            ELSE NoItem]
    /\ log = SeedLog(items)
    /\ req = [r \in Reqs |-> IdleReq]
    /\ user = LoggedIn /\ now = 0

NextReports ==
    \/ \E inv \in Items : ReadStockStatus("r1", inv)
    \/ \E school \in Schools, category \in CategoryFilters,
          status \in StatusFilters, ok \in BOOLEAN :
            InventoryReport("r1", school, category, status, ok)
    \/ \E school \in Schools, variant \in LowStockVariants, ok \in BOOLEAN :
            LowStockReport("r1", school, variant, ok)
    \/ \E school \in Schools, ok \in BOOLEAN : CategoryReport("r1", school, ok)
    \/ \E school \in Schools, category \in CategoryFilters,
          status \in ListFilters, ok \in BOOLEAN :
            ListItems("r1", school, category, status, ok)
    \/ \E school \in Schools : SummaryStats("r1", school)
    \/ \E which \in StatsQueries, ok \in BOOLEAN : SummaryStatsCount("r1", which, ok)
    \/ \E school \in Schools : TransactionReport("r1", school)
    \/ \E which \in {"find", "aggregate"}, ok \in BOOLEAN :
          TransactionReportQuery("r1", which, ok)

SpecReports == InitReports /\ [][NextReports]_vars

\* Two low-stock reports, one after the other, on the stores of InitReports.
NextLowStock ==
    \E r \in Clients :
        /\ Free(r)
        /\ \E school \in Schools, variant \in LowStockVariants, ok \in BOOLEAN :
              LowStockReport(r, school, variant, ok)

SpecLowStock == InitReports /\ [][NextLowStock]_vars

\* ------------------------------------------------------- refresh tokens
\* The tokens a /refresh request may carry: none, or one signed for u1.
Tokens == {SignRefresh("u1", t) : t \in 0..MaxClock} \cup {NoToken}

\* POST /auth/refresh: jwt.verify, User.findById, the comparison with the
\* stored token, and generateTokens.
Refresh(r, token) ==
    /\ Free(r)
    /\ UNCHANGED <<items, log, user, now>>
    /\ LET asked == [IdleReq EXCEPT !.op = "refresh", !.pc = "done", !.token = token]
       IN  req' = [req EXCEPT ![r] =
                     IF token = NoToken
                     THEN [asked EXCEPT !.status = "401 Refresh token required"]
                     ELSE IF user.refreshToken # token \/ ~user.isActive
                     THEN [asked EXCEPT !.status = "401 Invalid refresh token"]
                     ELSE [asked EXCEPT !.pc = "saving", !.status = "pending",
                                        !.newToken = SignRefresh("u1", now)]]

\* user.save() of POST /auth/refresh: $set of refreshToken when the new token
\* differs from the one read; a failed save answers 401 from the catch.
RefreshSave(r, ok) ==
    /\ req[r].op = "refresh" /\ req[r].pc = "saving"
    /\ user' = IF ok /\ req[r].newToken # req[r].token
               THEN [user EXCEPT !.refreshToken = req[r].newToken]
               ELSE user
    /\ req' = [req EXCEPT ![r] =
                 [@ EXCEPT !.pc = "done",
                           !.status = IF ok THEN "200"
                                      ELSE "401 Invalid refresh token"]]
    /\ UNCHANGED <<items, log, now>>

\* POST /auth/login: User.findOne, comparePassword (good: the password
\* matches) and generateTokens.
Login(r, good) ==
    /\ Free(r)
    /\ UNCHANGED <<items, log, user, now>>
    /\ LET asked == [IdleReq EXCEPT !.op = "login", !.pc = "done",
                        !.token = user.refreshToken]
       IN  req' = [req EXCEPT ![r] =
                     IF ~user.isActive \/ ~good
                     THEN [asked EXCEPT !.status = "401 Invalid credentials",
                                        !.token = NoToken]
                     ELSE [asked EXCEPT !.pc = "saving", !.status = "pending",
                                        !.newToken = SignRefresh("u1", now)]]

\* user.save() of POST /auth/login.
LoginSave(r, ok) ==
    /\ req[r].op = "login" /\ req[r].pc = "saving"
    /\ user' = IF ok /\ req[r].newToken # req[r].token
               THEN [user EXCEPT !.refreshToken = req[r].newToken]
               ELSE user
    /\ req' = [req EXCEPT ![r] =
                 [@ EXCEPT !.pc = "done", !.status = IF ok THEN "200" ELSE "500"]]
    /\ UNCHANGED <<items, log, now>>

\* POST /auth/logout: req.user.refreshToken = null; req.user.save().
Logout(r, ok) ==
    /\ Free(r)
    /\ user' = IF ok THEN [user EXCEPT !.refreshToken = NoToken] ELSE user
    /\ req' = [req EXCEPT ![r] =
                 [IdleReq EXCEPT !.op = "logout", !.pc = "done",
                                 !.status = IF ok THEN "200" ELSE "500"]]
    /\ UNCHANGED <<items, log, now>>

\* DELETE /users/:id by an administrator: user.isActive = false; user.save().
DeleteUser(r, ok) ==
    /\ Free(r)
    /\ user' = IF ok THEN [user EXCEPT !.isActive = FALSE] ELSE user
    /\ req' = [req EXCEPT ![r] =
                 [IdleReq EXCEPT !.op = "deleteUser", !.pc = "done",
                                 !.status = IF ok THEN "200" ELSE "500"]]
    /\ UNCHANGED <<items, log, now>>

\* A second passes.
Tick ==
    /\ now < MaxClock
    /\ now' = now + 1
    /\ UNCHANGED <<items, log, req, user>>

InitAuth ==
    /\ items = [i \in Items |-> NoItem]
    /\ log = <<>>
    /\ req = [r \in Reqs |-> IdleReq]
    /\ user = LoggedIn
    /\ now = 0

NextAuth ==
    \/ \E r \in Reqs, token \in Tokens : Refresh(r, token)
    \/ \E r \in Reqs, ok \in BOOLEAN : RefreshSave(r, ok)
    \/ \E r \in Reqs, good \in BOOLEAN : Login(r, good)
    \/ \E r \in Reqs, ok \in BOOLEAN : LoginSave(r, ok)
    \/ \E r \in Reqs, ok \in BOOLEAN : Logout(r, ok)
    \/ \E r \in Reqs, ok \in BOOLEAN : DeleteUser(r, ok)
    \/ Tick

SpecAuth == InitAuth /\ [][NextAuth]_vars

\* ---------------------------------------------------- log operators
Running(r) == req[r].pc \notin {"idle", "done"}
Quiet == \A r \in Reqs : ~Running(r)

LogOf(i) == SelectSeq(log, LAMBDA t : t.inventory = i)
LogBy(r) == SelectSeq(log, LAMBDA t : t.by = r)

RECURSIVE SumQuantity(_)
SumQuantity(seq) ==
    IF seq = <<>> THEN 0 ELSE Head(seq).quantity + SumQuantity(Tail(seq))

CheckOuts == SelectSeq(log, LAMBDA t : t.type = "check-out")

\* ----------------------------------------------------------- claims

\* C1: N concurrent check-out(1) requests against an item of quantity N are
\* serialized: once all have returned, all succeeded, the quantity is 0,
\* exactly N check-out transactions are recorded and their newQuantity
\* values are N-1, ..., 0, none repeated.
C1_CheckoutsSerialized ==
    (\A r \in Reqs : req[r].pc = "done") =>
        /\ \A r \in Reqs : req[r].status = "201"
        /\ items["i1"].quantity = 0
        /\ Len(CheckOuts) = Cardinality(Reqs)
        /\ {CheckOuts[k].newQuantity : k \in 1..Len(CheckOuts)}
              = 0..(Cardinality(Reqs) - 1)

\* C2: in every reachable state the stored quantity of every item is >= 0.
C2_QuantityNonNegative == \A i \in Items : items[i].quantity >= 0

\* Two check-outs of one item computed from the same read, both written.
C2_Witness ==
    \E r \in Reqs, g \in Reqs :
        /\ r # g
        /\ req[r].op = "txn" /\ req[g].op = "txn"
        /\ req[r].type = "check-out" /\ req[g].type = "check-out"
        /\ req[r].inv = req[g].inv /\ req[r].prev = req[g].prev
        /\ req[r].qty.n + req[g].qty.n > req[r].prev
        /\ req[r].itemW = "ok" /\ req[g].itemW = "ok"

\* C3: when every operation has completed, each item's quantity equals the
\* newQuantity of its most recent transaction and the sum of the signed
\* quantities of its transactions (0 when it has none).
C3_QuantityMatchesLog ==
    (Quiet /\ \A r \in Reqs : req[r].status \in {"none", "200", "201"}) =>
        \A i \in Items :
            items[i].exists =>
                /\ items[i].quantity = SumQuantity(LogOf(i))
                /\ LogOf(i) # <<>> =>
                      items[i].quantity = LogOf(i)[Len(LogOf(i))].newQuantity

\* C4: every transaction record written satisfies
\* previousQuantity + quantity = newQuantity.
C4_RecordArithmetic ==
    \A k \in 1..Len(log) :
        log[k].previousQuantity + log[k].quantity = log[k].newQuantity

\* C5: no state shows one of the two writes of a quantity change without the
\* other: the item changed with its transaction still to be appended, or the
\* transaction appended with the item still holding the previous quantity.
C5_WritesAtomic ==
    \A r \in Reqs :
        req[r].new # req[r].prev =>
            /\ ~(req[r].itemW = "ok" /\ req[r].txnW = "pending")
            /\ ~(req[r].txnW = "ok" /\ req[r].itemW = "pending")

\* C6: when one of the two writes of a mutation failed, the other is not
\* persisted once the request has returned.
C6_NoPartialCommit ==
    \A r \in Reqs :
        (req[r].pc = "done" /\ req[r].new # req[r].prev) =>
            /\ ~(req[r].itemW = "ok" /\ req[r].txnW = "failed")
            /\ ~(req[r].txnW = "ok" /\ req[r].itemW = "failed")

\* C7: a check-out that asks for more than the quantity the item holds when
\* the request reads it ends with "Insufficient stock", reporting
\* available = that quantity and requested = the quantity asked for, starts
\* no write, and leaves every item and the log as they were.
C7_InsufficientStock ==
    [][\A r \in Reqs :
         ( /\ req[r].pc = "idle"
           /\ req'[r].op = "txn"
           /\ req'[r].type = "check-out"
           /\ ValidateTransaction(req'[r].type, req'[r].qty)
           /\ FindActive(req'[r].inv, req'[r].school)
           /\ req'[r].qty.n > items[req'[r].inv].quantity )
         => ( /\ req'[r].pc = "done"
              /\ req'[r].status = "400 Insufficient stock"
              /\ req'[r].available = items[req'[r].inv].quantity
              /\ req'[r].requested = req'[r].qty.n
              /\ req'[r].itemW = "none" /\ req'[r].txnW = "none"
              /\ items' = items /\ log' = log )]_vars

C7_Witness ==
    \E r \in Reqs :
        /\ req[r].status = "400 Insufficient stock"
        /\ req[r].requested > req[r].available
        /\ req[r].available > 0

\* C8: a successful create-transaction on an item of quantity p with
\* requested quantity q records previousQuantity = p and records and stores
\* check-in (p + q, +q), check-out (p - q, -q), adjustment (q, q - p).
C8_Expected(type, p, q) ==
    CASE type = "check-in" -> <<p + q, q>>
      [] type = "check-out" -> <<p - q, 0 - q>>
      [] OTHER -> <<q, q - p>>

C8_TransactionArithmetic ==
    [][\A r \in Reqs :
         ( /\ req[r].op = "txn"
           /\ req[r].status # "201"
           /\ req'[r].status = "201" )
         => LET rec == req'[r]
                exp == C8_Expected(rec.type, rec.prev, rec.qty.n)
                mine == SelectSeq(log', LAMBDA t : t.by = r)
            IN  /\ Len(mine) = 1
                /\ mine[1].type = rec.type
                /\ mine[1].previousQuantity = rec.prev
                /\ mine[1].newQuantity = exp[1]
                /\ mine[1].quantity = exp[2]
                /\ rec.new = exp[1]]_vars

\* C9 as stated: whenever a quantity is set to the value the item already
\* has, by an adjustment or by an item update, a transaction is recorded for
\* it, with quantity 0 and previousQuantity = newQuantity.
C9_NoOpAlwaysRecorded ==
    \A r \in Reqs :
        ( /\ req[r].pc = "done"
          /\ req[r].status \in {"200", "201"}
          /\ req[r].op \in {"txn", "update"}
          /\ req[r].type = "adjustment"
          /\ req[r].new = req[r].prev )
        => /\ Len(LogBy(r)) = 1
           /\ LogBy(r)[1].quantity = 0
           /\ LogBy(r)[1].previousQuantity = LogBy(r)[1].newQuantity

\* C9 amended: a successful adjustment request whose requested quantity is
\* the quantity it read records exactly one transaction, with quantity 0 and
\* previousQuantity = newQuantity = that quantity, and no step of the request
\* changes an item; an item update that leaves the quantity equal records
\* no transaction.
C9_NoOpAdjustment ==
    [][\A r \in Reqs :
         /\ ( /\ req[r].op = "txn"
              /\ req[r].type = "adjustment"
              /\ req[r].qty.n = req[r].prev
              /\ req'[r] # req[r] )
            => /\ items' = items
               /\ req'[r].status = "201" =>
                    LET mine == SelectSeq(log', LAMBDA t : t.by = r)
                    IN  /\ Len(mine) = 1
                        /\ mine[1].type = "adjustment"
                        /\ mine[1].quantity = 0
                        /\ mine[1].previousQuantity = req[r].prev
                        /\ mine[1].newQuantity = req[r].prev
         /\ ( /\ req[r].op = "update"
              /\ req[r].new = req[r].prev
              /\ req'[r] # req[r] )
            => /\ \A i \in Items : items'[i].quantity = items[i].quantity
               /\ log' = log
               /\ req'[r].pc = "done"]_vars

C9_Witness ==
    /\ \E r \in Reqs :
          /\ req[r].op = "txn" /\ req[r].type = "adjustment"
          /\ req[r].status = "201" /\ req[r].qty.n = req[r].prev
          /\ Len(LogBy(r)) = 1
    /\ \E r \in Reqs :
          /\ req[r].op = "update" /\ req[r].status = "200"
          /\ req[r].new = req[r].prev

\* C10: an adjustment with requested quantity 0 on an active item of the
\* caller's tenant is accepted: it goes on to set the quantity to 0 and to
\* record the delta -p, p being the quantity it read.
C10_AdjustToZero ==
    [][\A r \in Reqs :
         ( /\ req[r].pc = "idle"
           /\ req'[r].op = "txn"
           /\ req'[r].type = "adjustment"
           /\ req'[r].qty.n = 0
           /\ FindActive(req'[r].inv, req'[r].school) )
         => ( /\ req'[r].status = "pending"
              /\ req'[r].new = 0
              /\ req'[r].delta = 0 - items[req'[r].inv].quantity )]_vars

\* C11: a check-in or check-out whose requested quantity is 0 or negative is
\* rejected by validation with "Quantity must be a positive integer": the
\* handler returns at once, starts no write, and leaves every item and the
\* log as they were.
C11_NonPositiveRejected ==
    [][\A r \in Reqs :
         ( /\ req[r].pc = "idle"
           /\ req'[r].op = "txn"
           /\ req'[r].type \in {"check-in", "check-out"}
           /\ req'[r].qty.n <= 0 )
         => ( /\ req'[r].pc = "done"
              /\ req'[r].status = "400 Validation failed"
              /\ "Quantity must be a positive integer" \in req'[r].errors
              /\ req'[r].itemW = "none" /\ req'[r].txnW = "none"
              /\ items' = items /\ log' = log )]_vars

\* A check-in of quantity 0 and a check-out of a negative quantity, rejected.
C11_Witness ==
    /\ \E r \in Reqs :
          /\ req[r].op = "txn" /\ req[r].type = "check-in" /\ req[r].qty.n = 0
          /\ req[r].status = "400 Validation failed"
    /\ \E r \in Reqs :
          /\ req[r].op = "txn" /\ req[r].type = "check-out" /\ req[r].qty.n < 0
          /\ req[r].status = "400 Validation failed"

\* C12: a create-transaction request that passes validation and names an
\* item that does not exist, is of another tenant or is inactive ends with
\* "Not found"; it starts no write and leaves every item and the log as they
\* were.
C12_NotFound ==
    [][\A r \in Reqs :
         ( /\ req[r].pc = "idle"
           /\ req'[r].op = "txn"
           /\ req'[r].type \in TxnTypes
           /\ req'[r].qty.n >= 1
           /\ \/ ~items[req'[r].inv].exists
              \/ items[req'[r].inv].school # req'[r].school
              \/ ~items[req'[r].inv].isActive )
         => ( /\ req'[r].pc = "done"
              /\ req'[r].status = "404 Not found"
              /\ req'[r].itemW = "none" /\ req'[r].txnW = "none"
              /\ items' = items /\ log' = log )]_vars

\* "Not found" for an item of the caller's tenant that was soft-deleted.
C12_Witness ==
    \E r \in Reqs :
        /\ req[r].op = "txn" /\ req[r].status = "404 Not found"
        /\ items[req[r].inv].exists
        /\ items[req[r].inv].school = req[r].school
        /\ ~items[req[r].inv].isActive
        /\ items[req[r].inv].quantity > 0

\* C13: a create-transaction request whose type is not check-in, check-out
\* or adjustment never starts a write and leaves every item and the log as
\* they were; type 'transfer' with a positive quantity on an active item of
\* the caller's tenant ends with "Invalid transaction type", and a type
\* outside the four of the schema is rejected by validation with that same
\* message.  No record of the log ever has type 'transfer'.
C13_InvalidType ==
    [][/\ \A r \in Reqs :
            ( /\ req[r].pc = "idle"
              /\ req'[r].op = "txn"
              /\ req'[r].type \notin {"check-in", "check-out", "adjustment"} )
            => ( /\ req'[r].pc = "done"
                 /\ req'[r].itemW = "none" /\ req'[r].txnW = "none"
                 /\ items' = items /\ log' = log
                 /\ ( /\ req'[r].type = "transfer"
                      /\ req'[r].qty.n >= 1
                      /\ items[req'[r].inv].exists
                      /\ items[req'[r].inv].school = req'[r].school
                      /\ items[req'[r].inv].isActive )
                    => req'[r].status = "400 Invalid transaction type"
                 /\ req'[r].type # "transfer"
                    => ( /\ req'[r].status = "400 Validation failed"
                         /\ "Invalid transaction type" \in req'[r].errors ) )
       /\ \A k \in 1..Len(log') : log'[k].type # "transfer"]_vars

\* A transfer of a positive quantity on an existing active item, refused.
C13_Witness ==
    \E r \in Reqs :
        /\ req[r].op = "txn" /\ req[r].type = "transfer"
        /\ req[r].status = "400 Invalid transaction type"
        /\ req[r].qty.n >= 1
        /\ items[req[r].inv].quantity = req[r].prev

\* C14: a create-item request with quantity q > 0 that returns 201 has
\* appended exactly one transaction, for the item it created: a check-in
\* with previousQuantity 0, quantity q, newQuantity q and reason
\* "Initial stock"; with quantity 0 it has appended none.
C14_InitialStock ==
    [][\A r \in Reqs :
         ( /\ req'[r].op = "create"
           /\ req[r].status # "201"
           /\ req'[r].status = "201" )
         => LET q == req'[r].qty.n
                mine == SelectSeq(log', LAMBDA t : t.by = r)
            IN  /\ items'[req'[r].inv].exists
                /\ q > 0 =>
                     /\ Len(mine) = 1
                     /\ mine[1].type = "check-in"
                     /\ mine[1].inventory = req'[r].inv
                     /\ mine[1].school = req'[r].school
                     /\ mine[1].previousQuantity = 0
                     /\ mine[1].quantity = q
                     /\ mine[1].newQuantity = q
                     /\ mine[1].reason = "Initial stock"
                /\ q = 0 => mine = <<>>]_vars

\* One item created with a positive quantity and one with quantity 0.
C14_Witness ==
    /\ \E r \in Reqs :
          /\ req[r].op = "create" /\ req[r].status = "201" /\ req[r].qty.n > 0
          /\ Len(LogBy(r)) = 1
    /\ \E r \in Reqs :
          /\ req[r].op = "create" /\ req[r].status = "201" /\ req[r].qty.n = 0
          /\ LogBy(r) = <<>>

C17_AppendOnly ==
    [][/\ Len(log') >= Len(log)
       /\ \A k \in 1..Len(log) : log'[k] = log[k]]_vars

\* Three records in the log after an item update and a create-transaction.
C17_Witness ==
    /\ Len(log) >= 3
    /\ \E r \in Reqs : req[r].op = "update" /\ req[r].status = "200"
    /\ \E r \in Reqs : req[r].op = "txn" /\ req[r].status = "201"

C19_StockStatus ==
    \A r \in Reqs :
        req[r].op = "stockStatus" =>
            LET q == items[req[r].inv].quantity
                min == items[req[r].inv].minThreshold
                max == items[req[r].inv].maxThreshold
                st == req[r].stockStatus
            IN  /\ st \in {"out-of-stock", "low-stock", "overstock", "in-stock"}
                /\ q <= 0 => st = "out-of-stock"
                /\ (q > 0 /\ q <= min) => st = "low-stock"
                /\ (q > 0 /\ q > min /\ q >= max) => st = "overstock"
                /\ (q > 0 /\ q > min /\ q < max) => st = "in-stock"
                /\ <<q, min, max>> = <<0, 5, 100>> => st = "out-of-stock"
                /\ <<q, min, max>> = <<5, 5, 100>> => st = "low-stock"
                /\ <<q, min, max>> = <<50, 5, 100>> => st = "in-stock"
                /\ <<q, min, max>> = <<100, 5, 100>> => st = "overstock"

\* An item above its maximum threshold and not above its minimum threshold
\* (min > max): low-stock comes first.
C19_Witness ==
    \E r \in Reqs :
        /\ req[r].op = "stockStatus"
        /\ items[req[r].inv].minThreshold > items[req[r].inv].maxThreshold
        /\ items[req[r].inv].quantity >= items[req[r].inv].maxThreshold
        /\ items[req[r].inv].quantity > 0
        /\ req[r].stockStatus = "low-stock"

\* The value quantity * cost item i adds to the total of report r.
C20_Value(r, i) ==
    IF i \in req[r].found THEN items[i].quantity * items[i].cost ELSE 0

\* C20: the inventory report is over active items of the caller's tenant
\* only (all of them in the category asked for when no status is asked for),
\* and its summary gives their number, the sum of quantity * cost, the
\* number with quantity <= minThreshold and the number with quantity = 0.
C20_InventorySummary ==
    \A r \in Reqs :
        (req[r].op = "report" /\ req[r].status = "200") =>
            LET f == req[r].found
                s == req[r].summary
                mine == {i \in Items : /\ items[i].exists
                                       /\ items[i].school = req[r].school
                                       /\ items[i].isActive
                                       /\ req[r].category \in {"none", items[i].category}}
            IN  /\ f \subseteq mine
                /\ req[r].filter = "none" => f = mine
                /\ s.totalItems = Cardinality(f)
                /\ s.totalValue = C20_Value(r, "i1") + C20_Value(r, "i2")
                                    + C20_Value(r, "i3")
                /\ s.lowStockCount =
                     Cardinality({i \in f : items[i].quantity <= items[i].minThreshold})
                /\ s.outOfStockCount =
                     Cardinality({i \in f : items[i].quantity = 0})

\* A report over two items of the caller, one of them out of stock and one
\* above its minimum threshold, while a soft-deleted item of the caller with
\* stock is in the store.
C20_Witness ==
    \E r \in Reqs :
        /\ req[r].op = "report" /\ req[r].status = "200"
        /\ req[r].summary.totalItems = 2
        /\ req[r].summary.outOfStockCount = 1
        /\ req[r].summary.lowStockCount = 1
        /\ req[r].summary.totalValue > 0
        /\ \E i \in Items \ req[r].found :
              /\ items[i].exists /\ items[i].school = req[r].school
              /\ ~items[i].isActive /\ items[i].quantity > 0

\* C21: a low-stock report lists exactly the active items of the caller's
\* tenant with quantity <= minThreshold; each element has recommendedOrder =
\* max(maxThreshold - quantity, minThreshold * 2), the spreadsheet and PDF
\* elements have estimatedCost = recommendedOrder * cost and the JSON summary
\* totals recommendedOrder * cost; two variants give the same recommendedOrder
\* for the same item.
C21_Restock(r, i) ==
    IF i \in req[r].found
    THEN (IF items[i].maxThreshold - items[i].quantity >= items[i].minThreshold * 2
          THEN items[i].maxThreshold - items[i].quantity
          ELSE items[i].minThreshold * 2) * items[i].cost
    ELSE 0

C21_LowStockReport ==
    /\ \A r \in Reqs :
          (req[r].op = "lowStock" /\ req[r].status = "200") =>
              /\ req[r].found = {i \in Items : /\ items[i].exists
                                               /\ items[i].school = req[r].school
                                               /\ items[i].isActive
                                               /\ items[i].quantity <= items[i].minThreshold}
              /\ {row.id : row \in req[r].rows} = req[r].found
              /\ \A row \in req[r].rows :
                    LET it == items[row.id]
                    IN  /\ row.recommendedOrder >= it.maxThreshold - it.quantity
                        /\ row.recommendedOrder >= it.minThreshold * 2
                        /\ row.recommendedOrder \in {it.maxThreshold - it.quantity,
                                                     it.minThreshold * 2}
                        /\ req[r].variant # "json" =>
                              row.estimatedCost = row.recommendedOrder * it.cost
              /\ req[r].variant = "json" =>
                    req[r].summary.totalValue =
                        C21_Restock(r, "i1") + C21_Restock(r, "i2") + C21_Restock(r, "i3")
    /\ \A r \in Reqs, g \in Reqs :
          (req[r].op = "lowStock" /\ req[g].op = "lowStock") =>
              \A row \in req[r].rows, other \in req[g].rows :
                  row.id = other.id => row.recommendedOrder = other.recommendedOrder

\* A JSON and a spreadsheet report of the same school that list the same
\* item, for which twice the minimum threshold is the larger order.
C21_Witness ==
    \E r \in Reqs, g \in Reqs :
        /\ req[r].op = "lowStock" /\ req[r].variant = "json" /\ req[r].status = "200"
        /\ req[g].op = "lowStock" /\ req[g].variant = "excel" /\ req[g].status = "200"
        /\ \E row \in req[r].rows, other \in req[g].rows :
              /\ row.id = other.id
              /\ row.recommendedOrder = items[row.id].minThreshold * 2
              /\ row.recommendedOrder > items[row.id].maxThreshold - items[row.id].quantity
              /\ other.estimatedCost > 0

\* C28: for every item the JSON low-stock report lists, either the quantity
\* is 0 and daysUntilEmpty is 0 with no division made, or the quantity is
\* positive, minThreshold >= quantity and the divisor is positive.
C28_NoDivisionByZero ==
    \A r \in Reqs :
        (req[r].op = "lowStock" /\ req[r].variant = "json" /\ req[r].status = "200") =>
            \A row \in req[r].rows :
                LET it == items[row.id]
                IN  \/ /\ it.quantity = 0
                       /\ row.daysUntilEmpty = 0
                       /\ row.divisor10 = NoVal
                    \/ /\ it.quantity > 0
                       /\ it.minThreshold >= it.quantity
                       /\ row.divisor10 > 0
                       /\ row.daysUntilEmpty # Infinity

\* A listed item with a positive quantity, whose daysUntilEmpty was divided.
C28_Witness ==
    \E r \in Reqs :
        /\ req[r].op = "lowStock" /\ req[r].variant = "json"
        /\ \E row \in req[r].rows :
              /\ items[row.id].quantity > 0
              /\ row.divisor10 > 0
              /\ row.daysUntilEmpty = 10

\* C22: the category report has an element for every category; for a
\* category without active items of the caller it has itemCount 0 and
\* averageValue 0, for any other averageValue = totalValue / itemCount, and
\* the report does not fail on a division.
C22_CategoryRollup ==
    \A r \in Reqs :
        (req[r].op = "categories" /\ req[r].status = "200") =>
            \A c \in Categories :
                \E row \in req[r].rows :
                    /\ row.id = c
                    /\ row.itemCount =
                         Cardinality({i \in Items : /\ items[i].exists
                                                    /\ items[i].school = req[r].school
                                                    /\ items[i].isActive
                                                    /\ items[i].category = c})
                    /\ IF row.itemCount = 0
                       THEN row.averageValue.num = 0
                       ELSE /\ row.averageValue.num = row.totalValue
                            /\ row.averageValue.den = row.itemCount

\* C29: the item listing filtered on a status returns exactly the active
\* items of the caller (in the category asked for) whose stockStatus is that
\* status.
C29_FilterMatchesStatus ==
    \A r \in Reqs :
        ( /\ req[r].op = "list" /\ req[r].status = "200"
          /\ req[r].filter \in {"out-of-stock", "low-stock", "overstock", "in-stock"} )
        => req[r].found =
             {i \in Items :
                /\ items[i].exists /\ items[i].school = req[r].school
                /\ items[i].isActive
                /\ req[r].category \in {"none", items[i].category}
                /\ StockStatus(items[i].quantity, items[i].minThreshold,
                               items[i].maxThreshold) = req[r].filter}

\* C23: every step of a report, listing or summary request leaves every
\* item, with its quantity, thresholds and active flag, and the whole log as
\* they were.
C23_ReportsReadOnly ==
    [][\A r \in Reqs :
         ( /\ req'[r] # req[r]
           /\ req'[r].op \in {"stockStatus", "report", "lowStock", "categories",
                              "list", "stats", "txnReport"} )
         => (items' = items /\ log' = log)]_vars

\* A finished transaction summary and stocked items with their records.
C23_Witness ==
    /\ \E r \in Reqs : req[r].op = "stats" /\ req[r].status = "200"
                       /\ req[r].counts.total >= 2
    /\ Len(log) >= 3
    /\ \A i \in Items : items[i].exists /\ items[i].quantity > 0

\* C24: a finished transaction summary is consistent: the statistics have
\* total = checkIn + checkOut + adjustment, and the transaction report has
\* totalTransactions = the sum of the counts by type.
C24_SummarySnapshot ==
    \A r \in Reqs :
        /\ (req[r].op = "stats" /\ req[r].status = "200") =>
              req[r].counts.total = req[r].counts.checkIn + req[r].counts.checkOut
                                      + req[r].counts.adjustment
        /\ (req[r].op = "txnReport" /\ req[r].status = "200") =>
              req[r].counts.total = req[r].counts.checkIn + req[r].counts.checkOut
                                      + req[r].counts.adjustment + req[r].counts.transfer

\* C25: the records of each item form a chain: the first has
\* previousQuantity 0 and every later one has for previousQuantity the
\* newQuantity of the record appended just before it for the same item.
C25_UnbrokenChain ==
    \A i \in Items :
        LET chain == LogOf(i)
        IN  /\ chain # <<>> => chain[1].previousQuantity = 0
            /\ \A k \in 2..Len(chain) :
                  chain[k].previousQuantity = chain[k - 1].newQuantity

\* C26: no step changes the tenant of an item, and every record of the log
\* has the tenant of the item it is for.
C26_TenantFixed ==
    [][/\ \A i \in Items : items[i].exists => items'[i].school = items[i].school
       /\ \A k \in 1..Len(log') :
             log'[k].school = items'[log'[k].inventory].school]_vars

\* C27: a request that finds the item inactive leaves it frozen: an item
\* update that read the item inactive does not change its quantity, append a
\* record for it or make it active again.
C27_InactiveFrozen ==
    \A r \in Reqs :
        (req[r].op = "update" /\ req[r].readActive = "false" /\ req[r].itemW = "ok") =>
            /\ req[r].new = req[r].prev
            /\ req[r].setActive # "true"
            /\ LogBy(r) = <<>>

\* C30: a refresh token is single-use: no two /refresh requests that carried
\* the same token have both succeeded, and a token that a refresh has used
\* is not the stored token afterwards.
C30_SingleUse ==
    /\ \A r \in Reqs, g \in Reqs :
          ( /\ r # g
            /\ req[r].op = "refresh" /\ req[r].status = "200"
            /\ req[g].op = "refresh" /\ req[g].status = "200" )
          => req[r].token # req[g].token
    /\ \A r \in Reqs :
          (req[r].op = "refresh" /\ req[r].status = "200") =>
              user.refreshToken # req[r].token

====
